---- MODULE Spec2Model ----
(***************************************************************************)
(* Model of the OpenAlex worker: the QueryBuilder (URL construction from   *)
(* query parameters), the OpenAlexFetcher (one outbound call with a        *)
(* timeout timer, response classification and error wrapping), and the     *)
(* boundary that uses them: the HTTP router with its entity handlers and   *)
(* the MCP tool handlers.                                                  *)
(*                                                                         *)
(* A JavaScript string is a sequence of atoms; an atom is one character,   *)
(* or a literal of the source kept whole (the base URL, a parameter key,   *)
(* an entity name).  An optional value is <<>> (undefined) or <<v>>.       *)
(***************************************************************************)
EXTENDS Integers, Sequences, FiniteSets, TLC

\* ------------------------------------------------------------------ bounds
\* longest caller-supplied string
MaxStrLen == 1
\* largest caller-supplied number (the smallest is -1)
MaxNum == 1
\* most QueryParams fields supplied to one buildFromParams call
MaxSupplied == 2
\* most setter calls made on one builder object
MaxSetterCalls == 1
\* fetch() calls in flight on one fetcher
NumCalls == 2

\* ------------------------------------------------------- values and inputs
None == <<>>
Some(v) == <<v>>

OPENALEX_BASE_URL == "https://api.openalex.org"

VALID_ENTITIES ==
  {"works", "authors", "sources", "institutions", "topics",
   "publishers", "funders", "keywords", "geo"}

\* entity types the builder is exercised with
EntityInputs == {"works", "authors"}

\* entity identifiers: absent, empty, an OpenAlex id
EntityIdInputs == {None, Some(<<>>), Some(<<"W", "1">>)}

\* characters of caller-supplied text: one the form encoding turns into '+'
\* and one it percent-encodes (digits and '-' are the plain ones)
InputChars == {" ", "&"}

Strings == UNION {[1..k -> InputChars] : k \in 0..MaxStrLen}

Nums == (-1)..MaxNum

StrFields == {"filter", "search", "sort", "cursor", "select", "group_by", "mailto"}
NumFields == {"page", "per_page", "sample", "seed"}

\* QueryParams with the fields of Ss and Sn supplied
MkQueryParams(Ss, gs, Sn, gn) ==
  [filter   |-> IF "filter" \in Ss THEN Some(gs["filter"]) ELSE None,
   search   |-> IF "search" \in Ss THEN Some(gs["search"]) ELSE None,
   sort     |-> IF "sort" \in Ss THEN Some(gs["sort"]) ELSE None,
   page     |-> IF "page" \in Sn THEN Some(gn["page"]) ELSE None,
   per_page |-> IF "per_page" \in Sn THEN Some(gn["per_page"]) ELSE None,
   cursor   |-> IF "cursor" \in Ss THEN Some(gs["cursor"]) ELSE None,
   select   |-> IF "select" \in Ss THEN Some(gs["select"]) ELSE None,
   sample   |-> IF "sample" \in Sn THEN Some(gn["sample"]) ELSE None,
   seed     |-> IF "seed" \in Sn THEN Some(gn["seed"]) ELSE None,
   group_by |-> IF "group_by" \in Ss THEN Some(gs["group_by"]) ELSE None,
   mailto   |-> IF "mailto" \in Ss THEN Some(gs["mailto"]) ELSE None]

\* QueryParams with no field supplied
NoParams == MkQueryParams({}, <<>>, {}, <<>>)

\* ------------------------------------------------------ JavaScript helpers
\* truthiness of a string: non-empty
StrTruthy(s) == s # <<>>

\* truthiness of a number: non-zero
NumTruthy(n) == n # 0

\* truthiness of an optional string / number: defined and truthy
OptStrTruthy(o) == o # None /\ StrTruthy(o[1])
OptNumTruthy(o) == o # None /\ NumTruthy(o[1])

DigitChar(d) == <<"0", "1", "2", "3", "4", "5", "6", "7", "8", "9">>[d + 1]

RECURSIVE Digits(_)
Digits(n) ==
  IF n < 10 THEN <<DigitChar(n)>>
  ELSE Digits(n \div 10) \o <<DigitChar(n % 10)>>

\* Number.prototype.toString() of an integer
NumToString(n) == IF n < 0 THEN <<"-">> \o Digits(-n) ELSE Digits(n)

\* ---------------------------------------------------------- URLSearchParams
\* params is the list of <<name, value>> pairs of a URLSearchParams object

HasName(params, k) == \E i \in 1..Len(params) : params[i][1] = k

FirstIndex(params, k) ==
  CHOOSE i \in 1..Len(params) :
    params[i][1] = k /\ \A j \in 1..(i - 1) : params[j][1] # k

\* URLSearchParams.append in the place of set
ParamsAppend(params, k, v) == Append(params, <<k, v>>)

\* URLSearchParams.set: replace the first pair of that name and drop the
\* others, or append
ParamsSet(params, k, v) ==
  IF HasName(params, k)
  THEN LET i == FirstIndex(params, k)
           Other(p) == p[1] # k
       IN  SubSeq(params, 1, i - 1) \o << <<k, v>> >>
             \o SelectSeq(SubSeq(params, i + 1, Len(params)), Other)
  ELSE Append(params, <<k, v>>)

\* application/x-www-form-urlencoded byte serialisation of one character
EncodeChar(c) ==
  CASE c = " " -> <<"+">>
    [] c = "&" -> <<"%", "2", "6">>
    [] c = "=" -> <<"%", "3", "D">>
    [] c = "+" -> <<"%", "2", "B">>
    [] c = "%" -> <<"%", "2", "5">>
    [] c = "?" -> <<"%", "3", "F">>
    [] c = "/" -> <<"%", "2", "F">>
    [] c = "@" -> <<"%", "4", "0">>
    [] c = "," -> <<"%", "2", "C">>
    [] c = ":" -> <<"%", "3", "A">>
    [] OTHER   -> <<c>>

RECURSIVE Encode(_)
Encode(s) == IF s = <<>> THEN <<>> ELSE EncodeChar(Head(s)) \o Encode(Tail(s))

\* URLSearchParams.toString
RECURSIVE ParamsToString(_)
ParamsToString(params) ==
  IF params = <<>> THEN <<>>
  ELSE LET p    == Head(params)
           pair == <<p[1], "=">> \o Encode(p[2])
       IN  IF Len(params) = 1 THEN pair
           ELSE pair \o <<"&">> \o ParamsToString(Tail(params))

\* ------------------------------------------------------------- QueryBuilder
\* a builder object: [baseUrl, params]

QueryBuilder(entityType, entityId) ==
  [baseUrl |-> IF OptStrTruthy(entityId)
               THEN <<OPENALEX_BASE_URL, "/", entityType, "/">> \o entityId[1]
               ELSE <<OPENALEX_BASE_URL, "/", entityType>>,
   params  |-> <<>>]

filter(b, filterString) ==
  IF StrTruthy(filterString)
  THEN [b EXCEPT !.params = ParamsSet(@, "filter", filterString)] ELSE b

search(b, searchTerm) ==
  IF StrTruthy(searchTerm)
  THEN [b EXCEPT !.params = ParamsSet(@, "search", searchTerm)] ELSE b

sort(b, sortField) ==
  IF StrTruthy(sortField)
  THEN [b EXCEPT !.params = ParamsSet(@, "sort", sortField)] ELSE b

\* page() attaching any page size that is not undefined, zero included
pageAnyPerPage(b, pageNumber, perPageOpt) ==
  LET b1 == IF NumTruthy(pageNumber)
            THEN [b EXCEPT !.params = ParamsSet(@, "page", NumToString(pageNumber))]
            ELSE b
  IN  IF perPageOpt # None
      THEN [b1 EXCEPT !.params = ParamsSet(@, "per-page", NumToString(perPageOpt[1]))]
      ELSE b1

\* page() that drops its page size argument
pageWithoutPerPage(b, pageNumber, perPageOpt) ==
  IF NumTruthy(pageNumber)
  THEN [b EXCEPT !.params = ParamsSet(@, "page", NumToString(pageNumber))]
  ELSE b

\* perPage is optional
page(b, pageNumber, perPageOpt) ==
  LET b1 == IF NumTruthy(pageNumber)
            THEN [b EXCEPT !.params = ParamsSet(@, "page", NumToString(pageNumber))]
            ELSE b
  IN  IF OptNumTruthy(perPageOpt)
      THEN [b1 EXCEPT !.params = ParamsSet(@, "per-page", NumToString(perPageOpt[1]))]
      ELSE b1

perPage(b, limit) ==
  IF NumTruthy(limit)
  THEN [b EXCEPT !.params = ParamsSet(@, "per-page", NumToString(limit))] ELSE b

\* cursor() that gives way to a page number already set
cursorUnlessPage(b, cursorValue) ==
  IF StrTruthy(cursorValue) /\ ~HasName(b.params, "page")
  THEN [b EXCEPT !.params = ParamsSet(@, "cursor", cursorValue)] ELSE b

cursor(b, cursorValue) ==
  IF StrTruthy(cursorValue)
  THEN [b EXCEPT !.params = ParamsSet(@, "cursor", cursorValue)] ELSE b

select(b, fields) ==
  IF StrTruthy(fields)
  THEN [b EXCEPT !.params = ParamsSet(@, "select", fields)] ELSE b

\* sample() testing the seed for truthiness
sampleTruthySeed(b, size, seedOpt) ==
  LET b1 == IF NumTruthy(size)
            THEN [b EXCEPT !.params = ParamsSet(@, "sample", NumToString(size))]
            ELSE b
  IN  IF OptNumTruthy(seedOpt)
      THEN [b1 EXCEPT !.params = ParamsSet(@, "seed", NumToString(seedOpt[1]))]
      ELSE b1

\* seed is optional
sample(b, size, seedOpt) ==
  LET b1 == IF NumTruthy(size)
            THEN [b EXCEPT !.params = ParamsSet(@, "sample", NumToString(size))]
            ELSE b
  IN  IF seedOpt # None
      THEN [b1 EXCEPT !.params = ParamsSet(@, "seed", NumToString(seedOpt[1]))]
      ELSE b1

groupBy(b, field) ==
  IF StrTruthy(field)
  THEN [b EXCEPT !.params = ParamsSet(@, "group_by", field)] ELSE b

mailto(b, email) ==
  IF StrTruthy(email)
  THEN [b EXCEPT !.params = ParamsSet(@, "mailto", email)] ELSE b

\* build() that always appends the '?'
buildAlwaysQuery(b) == b.baseUrl \o <<"?">> \o ParamsToString(b.params)

build(b) ==
  LET paramString == ParamsToString(b.params)
  IN  IF StrTruthy(paramString) THEN b.baseUrl \o <<"?">> \o paramString
      ELSE b.baseUrl

buildFromParams(entityType, queryParams, entityId) ==
  LET q  == queryParams
      b0 == QueryBuilder(entityType, entityId)
      b1 == IF OptStrTruthy(q.filter) THEN filter(b0, q.filter[1]) ELSE b0
      b2 == IF OptStrTruthy(q.search) THEN search(b1, q.search[1]) ELSE b1
      b3 == IF OptStrTruthy(q.sort) THEN sort(b2, q.sort[1]) ELSE b2
      b4 == IF OptNumTruthy(q.page) THEN page(b3, q.page[1], q.per_page) ELSE b3
      b5 == IF OptNumTruthy(q.per_page) /\ ~OptNumTruthy(q.page)
            THEN perPage(b4, q.per_page[1]) ELSE b4
      b6 == IF OptStrTruthy(q.cursor) THEN cursor(b5, q.cursor[1]) ELSE b5
      b7 == IF OptStrTruthy(q.select) THEN select(b6, q.select[1]) ELSE b6
      b8 == IF OptNumTruthy(q.sample) THEN sample(b7, q.sample[1], q.seed) ELSE b7
      b9 == IF OptStrTruthy(q.group_by) THEN groupBy(b8, q.group_by[1]) ELSE b8
      b10 == IF OptStrTruthy(q.mailto) THEN mailto(b9, q.mailto[1]) ELSE b9
  IN  build(b10)

\* ---------------------------------------------------------- OpenAlexFetcher
DEFAULT_TIMEOUT == 30000

\* FetcherOptions.timeout values a fetcher is constructed with
TimeoutOptions == {None, Some(0), Some(5)}

\* a constructor that keeps whatever number it is given
FetcherTimeoutAsGiven(timeoutOpt) ==
  IF timeoutOpt # None THEN timeoutOpt[1] ELSE DEFAULT_TIMEOUT

\* constructor: this.timeout = options.timeout || 30000
FetcherTimeout(timeoutOpt) ==
  IF OptNumTruthy(timeoutOpt) THEN timeoutOpt[1] ELSE DEFAULT_TIMEOUT

\* new OpenAlexError(message, statusCode?, responseBody?)
OpenAlexError(message, statusCode, responseBody) ==
  [class |-> "OpenAlexError", name |-> "OpenAlexError", message |-> message,
   statusCode |-> statusCode, responseBody |-> responseBody]

\* values the platform throws
JsError(name, message) ==
  [class |-> "Error", name |-> name, message |-> message,
   statusCode |-> None, responseBody |-> None]

AbortError == JsError("AbortError", <<"The operation was aborted">>)
NetworkError == JsError("TypeError", <<"fetch failed">>)
BodyStreamError == JsError("TypeError", <<"body stream failed">>)
JsonSyntaxError == JsError("SyntaxError", <<"Unexpected token">>)

\* a thrown value that is not an Error
NonErrorValue ==
  [class |-> "other", name |-> "", message |-> <<>>,
   statusCode |-> None, responseBody |-> None]

\* rejections of the network call other than the abort
FetchRejections == {NetworkError, NonErrorValue}

\* upstream responses: status, status text, body text
Responses ==
  {[status |-> 200, statusText |-> <<"OK">>, body |-> <<"{\"results\":[]}">>],
   [status |-> 200, statusText |-> <<"OK">>, body |-> <<"<html>">>],
   [status |-> 404, statusText |-> <<"Not Found">>,
    body |-> <<"{\"error\":\"not found\"}">>],
   [status |-> 500, statusText |-> <<>>, body |-> <<>>]}

\* Response.ok
ResponseOk(r) == r.status >= 200 /\ r.status <= 299

\* whether a body text is valid JSON
IsJson(text) == text \in {<<"{\"results\":[]}">>, <<"{\"error\":\"not found\"}">>}

\* JSON.parse of a valid body text
JsonParse(text) == [json |-> text]

\* clearTimeout: cancels a timer that has not fired
clearTimeout(timer) == IF timer = "pending" THEN "cleared" ELSE timer

\* a catch block that looks for a TimeoutError instead of the AbortError
CatchErrorNoAbort(error, ms) ==
  IF error.class = "OpenAlexError" THEN error
  ELSE IF error.class = "Error"
       THEN IF error.name = "TimeoutError"
            THEN OpenAlexError(<<"Request timeout after ">> \o NumToString(ms)
                                 \o <<"ms">>, None, None)
            ELSE OpenAlexError(<<"Request failed: ">> \o error.message, None, None)
       ELSE OpenAlexError(<<"Unknown error occurred">>, None, None)

\* a catch block that rethrows platform errors as they are
CatchErrorRethrow(error, ms) ==
  IF error.class \in {"OpenAlexError", "Error"} THEN error
  ELSE OpenAlexError(<<"Unknown error occurred">>, None, None)

\* a catch block without the OpenAlexError pass-through
CatchErrorWrapAll(error, ms) ==
  IF error.class \in {"OpenAlexError", "Error"}
  THEN IF error.name = "AbortError"
       THEN OpenAlexError(<<"Request timeout after ">> \o NumToString(ms)
                            \o <<"ms">>, None, None)
       ELSE OpenAlexError(<<"Request failed: ">> \o error.message, None, None)
  ELSE OpenAlexError(<<"Unknown error occurred">>, None, None)

\* the catch block of fetch(): the value it rethrows
CatchError(error, ms) ==
  IF error.class = "OpenAlexError" THEN error
  ELSE IF error.class = "Error"
       THEN IF error.name = "AbortError"
            THEN OpenAlexError(<<"Request timeout after ">> \o NumToString(ms)
                                 \o <<"ms">>, None, None)
            ELSE OpenAlexError(<<"Request failed: ">> \o error.message, None, None)
       ELSE OpenAlexError(<<"Unknown error occurred">>, None, None)

\* ------------------------------------------------------------------- state
VARIABLES
  builder,   \* the caller's QueryBuilder object: None or Some([baseUrl, params])
  nSet,      \* setter calls made on it
  lastCall,  \* the last QueryBuilder operation called, with its arguments
  apiUrl,    \* the URL that operation returned: None or Some(url)
  made,      \* the repeated buildFromParams calls made so far, with results
  options,   \* the FetcherOptions.timeout the fetcher was constructed with
  timeout,   \* OpenAlexFetcher.timeout of the fetcher instance
  calls,     \* the fetch() calls made on that instance, by call id
  inbound,   \* the HTTP request or tool call being served: None or Some(..)
  dispatch,  \* how far it got: position and the handlers invoked for it
  reply      \* the Response or tool result returned for it: None or Some(..)

builderVars == <<builder, nSet, lastCall, apiUrl>>
fetcherVars == <<options, timeout, calls>>
boundaryVars == <<inbound, dispatch, reply>>
vars == <<builder, nSet, lastCall, apiUrl, made, options, timeout, calls,
         inbound,
          dispatch, reply>>

CallIds == 1..NumCalls

\* a fetch() call that has not been made yet
IdleCall ==
  [pc |-> "idle", url |-> None, requests |-> <<>>, timer |-> "none",
   aborted |-> FALSE, response |-> None, body |-> None,
   result |-> None, error |-> None]

\* nothing received at the boundary yet
NoInbound ==
  /\ inbound = None
  /\ dispatch = [pc |-> "none", handlers |-> <<>>]
  /\ reply = None

NoBuilder ==
  /\ builder = None
  /\ nSet = 0
  /\ lastCall = [op |-> "none"]
  /\ apiUrl = None
  /\ made = {}

\* the module's singleton: new OpenAlexFetcher() with no options
SingletonFetcher ==
  /\ options = None
  /\ timeout = FetcherTimeout(options)
  /\ calls = [c \in CallIds |-> IdleCall]

InitBuilder ==
  /\ NoBuilder
  /\ SingletonFetcher
  /\ NoInbound

\* QueryBuilder.buildFromParams: a static call that builds on a fresh builder
\* of its own; its result does not depend on the state, so it is taken from
\* the initial state only
BuildFromParams ==
  /\ lastCall.op = "none"
  /\ \E entityType \in EntityInputs, entityId \in EntityIdInputs,
        Ss \in SUBSET StrFields, Sn \in SUBSET NumFields :
       /\ Cardinality(Ss) + Cardinality(Sn) <= MaxSupplied
       /\ \E gs \in [Ss -> Strings], gn \in [Sn -> Nums] :
            LET q == MkQueryParams(Ss, gs, Sn, gn) IN
            /\ lastCall' = [op |-> "buildFromParams", entityType |-> entityType,
                            queryParams |-> q, entityId |-> entityId]
            /\ apiUrl' = Some(buildFromParams(entityType, q, entityId))
            /\ builder' = None
            /\ nSet' = 0
            /\ UNCHANGED <<made, fetcherVars, boundaryVars>>

\* new QueryBuilder(entityType, entityId)
Construct ==
  \E entityType \in EntityInputs, entityId \in EntityIdInputs :
    /\ builder' = Some(QueryBuilder(entityType, entityId))
    /\ nSet' = 0
    /\ lastCall' = [op |-> "constructor", entityType |-> entityType,
                    entityId |-> entityId]
    /\ apiUrl' = None
    /\ UNCHANGED <<made, fetcherVars, boundaryVars>>

\* a setter called on the caller's builder
Setter(call, b) ==
  /\ builder # None
  /\ nSet < MaxSetterCalls
  /\ builder' = Some(b)
  /\ nSet' = nSet + 1
  /\ lastCall' = call
  /\ apiUrl' = None
  /\ UNCHANGED <<made, fetcherVars, boundaryVars>>

Filter ==
  \E s \in Strings :
    Setter([op |-> "filter", filterString |-> s], filter(builder[1], s))

Search ==
  \E s \in Strings :
    Setter([op |-> "search", searchTerm |-> s], search(builder[1], s))

Sort ==
  \E s \in Strings :
    Setter([op |-> "sort", sortField |-> s], sort(builder[1], s))

Page ==
  \E n \in Nums, pp \in {None} \cup {Some(m) : m \in Nums} :
    Setter([op |-> "page", pageNumber |-> n, perPage |-> pp],
           page(builder[1], n, pp))

PerPage ==
  \E n \in Nums :
    Setter([op |-> "perPage", limit |-> n], perPage(builder[1], n))

Cursor ==
  \E s \in Strings :
    Setter([op |-> "cursor", cursorValue |-> s], cursor(builder[1], s))

Select ==
  \E s \in Strings :
    Setter([op |-> "select", fields |-> s], select(builder[1], s))

Sample ==
  \E n \in Nums, sd \in {None} \cup {Some(m) : m \in Nums} :
    Setter([op |-> "sample", size |-> n, seed |-> sd],
           sample(builder[1], n, sd))

GroupBy ==
  \E s \in Strings :
    Setter([op |-> "groupBy", field |-> s], groupBy(builder[1], s))

Mailto ==
  \E s \in Strings :
    Setter([op |-> "mailto", email |-> s], mailto(builder[1], s))

\* builder.build()
Build ==
  /\ builder # None
  /\ lastCall.op # "build"
  /\ apiUrl' = Some(build(builder[1]))
  /\ lastCall' = [op |-> "build"]
  /\ UNCHANGED <<builder, nSet>>
  /\ UNCHANGED <<made, fetcherVars, boundaryVars>>

NextBuilder ==
  \/ BuildFromParams
  \/ Construct
  \/ Filter
  \/ Search
  \/ Sort
  \/ Page
  \/ PerPage
  \/ Cursor
  \/ Select
  \/ Sample
  \/ GroupBy
  \/ Mailto
  \/ Build

SpecBuilder == InitBuilder /\ [][NextBuilder]_vars

\* ------------------------------------------- buildFromParams, called again
\* a caller that holds a builder of its own and calls the static
\* buildFromParams any number of times, in any state of that builder

\* arguments of the repeated calls
StaticArgs ==
  [entityType : {"works"}, entityId : {None, Some(<<"W", "1">>)},
   queryParams : {NoParams,
                  [NoParams EXCEPT !.filter = Some(<<"&">>)],
                  [NoParams EXCEPT !.mailto = Some(<<" ">>), !.page = Some(MaxNum)]}]

\* one call as the caller sees it: what was passed, the options object after
\* the call, and the URL returned
CallRecord(args, after, url) == [args |-> args, after |-> after, url |-> url]

\* a buildFromParams that builds on the builder object at hand, where a
\* mailto left from earlier use stays set and is written back to the options
CallBuildFromParamsShared ==
  \E a \in StaticArgs :
    LET left == IF builder # None /\ HasName(builder[1].params, "mailto")
                THEN Some(builder[1].params[FirstIndex(builder[1].params, "mailto")][2])
                ELSE None
        q    == IF a.queryParams.mailto = None
                THEN [a.queryParams EXCEPT !.mailto = left] ELSE a.queryParams
        url  == buildFromParams(a.entityType, q, a.entityId)
    IN  /\ made' = made \cup {CallRecord(a, q, url)}
        /\ lastCall' = [op |-> "buildFromParams", entityType |-> a.entityType,
                        queryParams |-> q, entityId |-> a.entityId]
        /\ apiUrl' = Some(url)
        /\ UNCHANGED <<builder, nSet, fetcherVars, boundaryVars>>

\* QueryBuilder.buildFromParams called in any state: it works on a builder of
\* its own (new QueryBuilder), reads the options and returns the URL
CallBuildFromParams ==
  \E a \in StaticArgs :
    LET url == buildFromParams(a.entityType, a.queryParams, a.entityId)
    IN  /\ made' = made \cup {CallRecord(a, a.queryParams, url)}
        /\ lastCall' = [op |-> "buildFromParams", entityType |-> a.entityType,
                        queryParams |-> a.queryParams, entityId |-> a.entityId]
        /\ apiUrl' = Some(url)
        /\ UNCHANGED <<builder, nSet, fetcherVars, boundaryVars>>

NextStatic ==
  \/ Construct
  \/ Mailto
  \/ Build
  \/ CallBuildFromParams

SpecStatic == InitBuilder /\ [][NextStatic]_vars

\* ------------------------------------------------- chains of setter calls
\* one builder, constructed once, on which up to MaxChain setters are called
\* in any order, build() being called at any point

MaxChain == 2

\* arguments of the chained calls: empty and non-empty texts, zero and
\* non-zero numbers, an optional argument left out
ChainStrings == {<<>>, <<"a">>, <<"b", "&">>}
ChainNums == {0, 1, 2}
ChainOptNums == {None} \cup {Some(n) : n \in ChainNums}

ChainConstruct ==
  /\ lastCall.op = "none"
  /\ builder' = Some(QueryBuilder("works", None))
  /\ nSet' = 0
  /\ lastCall' = [op |-> "constructor", entityType |-> "works", entityId |-> None]
  /\ apiUrl' = None
  /\ UNCHANGED <<made, fetcherVars, boundaryVars>>

\* a setter called on the builder; it returns this, so the chain goes on
Chain(call, b) ==
  /\ builder # None
  /\ nSet < MaxChain
  /\ builder' = Some(b)
  /\ nSet' = nSet + 1
  /\ lastCall' = call
  /\ apiUrl' = None
  /\ UNCHANGED <<made, fetcherVars, boundaryVars>>

ChainFilter ==
  \E s \in ChainStrings :
    Chain([op |-> "filter", filterString |-> s], filter(builder[1], s))

ChainSearch ==
  \E s \in ChainStrings :
    Chain([op |-> "search", searchTerm |-> s], search(builder[1], s))

ChainSort ==
  \E s \in ChainStrings :
    Chain([op |-> "sort", sortField |-> s], sort(builder[1], s))

ChainPage ==
  \E n \in ChainNums, pp \in ChainOptNums :
    Chain([op |-> "page", pageNumber |-> n, perPage |-> pp],
          page(builder[1], n, pp))

ChainPerPage ==
  \E n \in ChainNums :
    Chain([op |-> "perPage", limit |-> n], perPage(builder[1], n))

ChainCursor ==
  \E s \in ChainStrings :
    Chain([op |-> "cursor", cursorValue |-> s], cursor(builder[1], s))

ChainSelect ==
  \E s \in ChainStrings :
    Chain([op |-> "select", fields |-> s], select(builder[1], s))

ChainSample ==
  \E n \in ChainNums, sd \in ChainOptNums :
    Chain([op |-> "sample", size |-> n, seed |-> sd],
          sample(builder[1], n, sd))

ChainGroupBy ==
  \E s \in ChainStrings :
    Chain([op |-> "groupBy", field |-> s], groupBy(builder[1], s))

ChainMailto ==
  \E s \in ChainStrings :
    Chain([op |-> "mailto", email |-> s], mailto(builder[1], s))

NextChain ==
  \/ ChainConstruct
  \/ ChainFilter
  \/ ChainSearch
  \/ ChainSort
  \/ ChainPage
  \/ ChainPerPage
  \/ ChainCursor
  \/ ChainSelect
  \/ ChainSample
  \/ ChainGroupBy
  \/ ChainMailto
  \/ Build

SpecChain == InitBuilder /\ [][NextChain]_vars

\* ------------------------------------------------------ fetch() call steps
\* URLs handed to fetch(): built by the query builder
FetchUrls ==
  {build(QueryBuilder("works", None)),
   build(QueryBuilder("works", Some(<<"W", "1">>)))}

\* a fetcher constructed with some options, no call made yet
InitFetcher ==
  /\ NoBuilder
  /\ options \in TimeoutOptions
  /\ timeout = FetcherTimeout(options)
  /\ calls = [c \in CallIds |-> IdleCall]
  /\ NoInbound

\* a catch block that issues the request once more before it gives up
ThrowRetry(call, v, ms) ==
  IF Len(call.requests) = 1
  THEN [call EXCEPT !.pc = "awaitFetch", !.timer = "pending", !.aborted = FALSE,
                    !.response = None,
                    !.requests = Append(@, call.url[1])]
  ELSE [call EXCEPT !.pc = "thrown", !.error = Some(CatchError(v, ms))]

\* the call throws v inside the try block: the catch block rethrows
Throw(call, v, ms) ==
  [call EXCEPT !.pc = "thrown", !.error = Some(CatchError(v, ms))]

\* fetch(url) up to the await of the network call: the controller is
\* created, the timer armed and the request issued
FetchStart(c) ==
  \E url \in FetchUrls :
    /\ calls[c].pc = "idle"
    /\ calls' = [calls EXCEPT ![c] =
                   [@ EXCEPT !.pc = "awaitFetch", !.url = Some(url),
                             !.timer = "pending",
                             !.requests = Append(@, url)]]
    /\ UNCHANGED <<options, timeout, builderVars, made, boundaryVars>>

\* a fetch() whose timer is left running while the body is read
FetchResolvesKeepsTimer(c) ==
  \E r \in Responses :
    /\ calls[c].pc = "awaitFetch"
    /\ ~calls[c].aborted
    /\ calls' = [calls EXCEPT ![c] =
                   [@ EXCEPT !.response = Some(r),
                             !.pc = IF ResponseOk(r) THEN "readJson"
                                    ELSE "readText"]]
    /\ UNCHANGED <<options, timeout, builderVars, made, boundaryVars>>

\* the network call resolves with a response: the timer is cleared and the
\* call goes on to read the body
FetchResolves(c) ==
  \E r \in Responses :
    /\ calls[c].pc = "awaitFetch"
    /\ ~calls[c].aborted
    /\ calls' = [calls EXCEPT ![c] =
                   [@ EXCEPT !.response = Some(r),
                             !.timer = clearTimeout(@),
                             !.pc = IF ResponseOk(r) THEN "readJson"
                                    ELSE "readText"]]
    /\ UNCHANGED <<options, timeout, builderVars, made, boundaryVars>>

\* the network call rejects for a reason other than the abort
FetchRejects(c) ==
  \E v \in FetchRejections :
    /\ calls[c].pc = "awaitFetch"
    /\ ~calls[c].aborted
    /\ calls' = [calls EXCEPT ![c] = Throw(@, v, timeout)]
    /\ UNCHANGED <<options, timeout, builderVars, made, boundaryVars>>

\* a timer callback aborting a controller shared by all calls in flight
TimerFiresShared(c) ==
  /\ calls[c].timer = "pending"
  /\ calls' = [d \in CallIds |->
                 IF d = c
                 THEN [calls[d] EXCEPT !.timer = "fired", !.aborted = TRUE]
                 ELSE IF calls[d].pc = "awaitFetch"
                      THEN [calls[d] EXCEPT !.aborted = TRUE]
                      ELSE calls[d]]
  /\ UNCHANGED <<options, timeout, builderVars, made, boundaryVars>>

\* the timer callback runs: controller.abort()
TimerFires(c) ==
  /\ calls[c].timer = "pending"
  /\ calls' = [calls EXCEPT ![c] = [@ EXCEPT !.timer = "fired", !.aborted = TRUE]]
  /\ UNCHANGED <<options, timeout, builderVars, made, boundaryVars>>

\* the aborted network call rejects with an AbortError
AbortRejects(c) ==
  /\ calls[c].pc = "awaitFetch"
  /\ calls[c].aborted
  /\ calls' = [calls EXCEPT ![c] = Throw(@, AbortError, timeout)]
  /\ UNCHANGED <<options, timeout, builderVars, made, boundaryVars>>

\* response.text() resolves: the OpenAlexError of a non-2xx response is thrown
TextResolves(c) ==
  /\ calls[c].pc = "readText"
  /\ LET r    == calls[c].response[1]
         body == r.body
     IN  calls' = [calls EXCEPT ![c] =
                    Throw([@ EXCEPT !.body = Some(body)],
                          OpenAlexError(<<"OpenAlex API error: ">> \o r.statusText,
                                        Some(r.status), Some(body)),
                          timeout)]
  /\ UNCHANGED <<options, timeout, builderVars, made, boundaryVars>>

\* a failed read of the error body that still reports the upstream status
TextRejectsKeepsStatus(c) ==
  /\ calls[c].pc = "readText"
  /\ LET r == calls[c].response[1]
     IN  calls' = [calls EXCEPT ![c] =
                    Throw(@, OpenAlexError(<<"OpenAlex API error: ">> \o r.statusText,
                                           Some(r.status), None),
                          timeout)]
  /\ UNCHANGED <<options, timeout, builderVars, made, boundaryVars>>

\* response.text() rejects
TextRejects(c) ==
  /\ calls[c].pc = "readText"
  /\ calls' = [calls EXCEPT ![c] = Throw(@, BodyStreamError, timeout)]
  /\ UNCHANGED <<options, timeout, builderVars, made, boundaryVars>>

\* response.json() resolves: the decoded data is returned
JsonResolves(c) ==
  /\ calls[c].pc = "readJson"
  /\ IsJson(calls[c].response[1].body)
  /\ calls' = [calls EXCEPT ![c] =
                 [@ EXCEPT !.pc = "returned",
                           !.result = Some(JsonParse(calls[c].response[1].body))]]
  /\ UNCHANGED <<options, timeout, builderVars, made, boundaryVars>>

\* response.json() rejects: the body is not JSON, or reading it failed
JsonRejects(c) ==
  \E v \in {JsonSyntaxError, BodyStreamError} :
    /\ calls[c].pc = "readJson"
    /\ v = JsonSyntaxError => ~IsJson(calls[c].response[1].body)
    /\ calls' = [calls EXCEPT ![c] = Throw(@, v, timeout)]
    /\ UNCHANGED <<options, timeout, builderVars, made, boundaryVars>>

NextFetcher ==
  \E c \in CallIds :
    \/ FetchStart(c)
    \/ FetchResolves(c)
    \/ FetchRejects(c)
    \/ TimerFires(c)
    \/ AbortRejects(c)
    \/ TextResolves(c)
    \/ TextRejects(c)
    \/ JsonResolves(c)
    \/ JsonRejects(c)

SpecFetcher == InitFetcher /\ [][NextFetcher]_vars

\* -------------------------------------------------------- reading a URL back
\* what a URL parser sees in a built URL: the query string after the first
\* '?', split into name-value pairs and form-decoded

\* index of the first occurrence of atom a in s, or 0
IndexOf(s, a) ==
  IF \E i \in 1..Len(s) : s[i] = a
  THEN CHOOSE i \in 1..Len(s) : s[i] = a /\ \A j \in 1..(i - 1) : s[j] # a
  ELSE 0

QueryOf(url) ==
  LET i == IndexOf(url, "?")
  IN  IF i = 0 THEN <<>> ELSE SubSeq(url, i + 1, Len(url))

\* String.split(sep): the pieces between the occurrences of sep
SplitOn(s, sep) ==
  LET seps == {i \in 1..Len(s) : s[i] = sep}
      \* position of the k-th separator; 0 and Len(s) + 1 close the ends
      At(k) == IF k = 0 THEN 0
               ELSE IF k > Cardinality(seps) THEN Len(s) + 1
               ELSE CHOOSE i \in seps : Cardinality({j \in seps : j < i}) = k - 1
  IN  [k \in 1..(Cardinality(seps) + 1) |-> SubSeq(s, At(k - 1) + 1, At(k) - 1)]

UnHex(h1, h2) ==
  CASE h1 = "2" /\ h2 = "6" -> "&"
    [] h1 = "3" /\ h2 = "D" -> "="
    [] h1 = "2" /\ h2 = "B" -> "+"
    [] h1 = "2" /\ h2 = "5" -> "%"
    [] h1 = "3" /\ h2 = "F" -> "?"
    [] h1 = "2" /\ h2 = "F" -> "/"
    [] h1 = "4" /\ h2 = "0" -> "@"
    [] h1 = "2" /\ h2 = "C" -> ","
    [] h1 = "3" /\ h2 = "A" -> ":"
    [] OTHER -> "?"

RECURSIVE Decode(_)
Decode(s) ==
  IF s = <<>> THEN <<>>
  ELSE IF Head(s) = "+" THEN <<" ">> \o Decode(Tail(s))
  ELSE IF Head(s) = "%" /\ Len(s) >= 3
       THEN <<UnHex(s[2], s[3])>> \o Decode(SubSeq(s, 4, Len(s)))
  ELSE <<Head(s)>> \o Decode(Tail(s))

ParsePair(piece) ==
  LET i == IndexOf(piece, "=")
  IN  IF i = 0 THEN <<Decode(piece), <<>> >>
      ELSE <<Decode(SubSeq(piece, 1, i - 1)),
             Decode(SubSeq(piece, i + 1, Len(piece)))>>

\* the decoded <<name, value>> pairs of the URL's query string
ParseQuery(url) ==
  LET NonEmpty(piece) == piece # <<>>
      pieces == SelectSeq(SplitOn(QueryOf(url), "&"), NonEmpty)
  IN  [i \in 1..Len(pieces) |-> ParsePair(pieces[i])]

\* the values of the parameters named k among parsed pairs, in order
ValuesOf(pairs, k) ==
  LET Named(p) == p[1] = <<k>>
      ps == SelectSeq(pairs, Named)
  IN  [i \in 1..Len(ps) |-> ps[i][2]]

CountOf(pairs, k) == Len(ValuesOf(pairs, k))

\* the upstream parameter name of a QueryParams field
KeyOf(f) == IF f = "per_page" THEN "per-page" ELSE f

\* the state after a buildFromParams call, its options and its result
IsBuildFromParams == lastCall.op = "buildFromParams"
Q == lastCall.queryParams
U == apiUrl[1]

\* whether field f of the options is supplied with a truthy value
Supplied(f) ==
  IF f \in StrFields THEN OptStrTruthy(Q[f]) ELSE OptNumTruthy(Q[f])

\* the text a supplied field is expected to appear as
Given(f) == IF f \in StrFields THEN Q[f][1] ELSE NumToString(Q[f][1])

Terminal(c) == calls[c].pc \in {"returned", "thrown"}

\* ------------------------------------------------------------------- router
\* a pathname is a sequence of atoms in which "/" is the separator; a path
\* segment is the sequence of atoms between two separators

\* most segments after the leading slash in an enumerated pathname
MaxSegments == 2

Methods == {"GET", "OPTIONS", "POST"}

SegmentInputs ==
  {<<"works">>, <<"authors">>, <<"autocomplete">>, <<"random">>,
   <<"W", "1">>, <<"bogus">>, <<>>}

RECURSIVE JoinSegments(_)
JoinSegments(segs) ==
  IF segs = <<>> THEN <<>>
  ELSE IF Len(segs) = 1 THEN Head(segs)
  ELSE Head(segs) \o <<"/">> \o JoinSegments(Tail(segs))

\* the path of the documented DOI lookup, /works/https://doi.org/10.7717/peerj.4375
DoiUrl == <<"https", ":", "/", "/", "doi.org", "/", "10.7717", "/", "peerj.4375">>
DoiPathname == <<"/", "works", "/">> \o DoiUrl

Pathnames ==
  {<<"/">> \o JoinSegments(segs) :
     segs \in UNION {[1..k -> SegmentInputs] : k \in 0..MaxSegments}}
    \cup {DoiPathname}

\* pathname.replace(/^\/|\/$/g, ''): one leading and one trailing slash go
StripSlashes(pathname) ==
  LET a == IF pathname # <<>> /\ Head(pathname) = "/"
           THEN Tail(pathname) ELSE pathname
  IN  IF a # <<>> /\ a[Len(a)] = "/" THEN SubSeq(a, 1, Len(a) - 1) ELSE a

\* an entity check that takes any non-empty segment
IsValidEntityNonEmpty(segment) == segment # <<>>

\* VALID_ENTITIES.includes(segment)
IsValidEntity(segment) == Len(segment) = 1 /\ segment[1] \in VALID_ENTITIES

RouteMatch(entityType, action, entityId) ==
  [entityType |-> entityType, action |-> action, entityId |-> entityId]

\* a parseRoute that takes /:entity/:id before /:entity/random
parseRouteIdFirst(pathname) ==
  LET parts == SplitOn(StripSlashes(pathname), "/")
  IN  IF ~StrTruthy(parts[1]) THEN None
      ELSE IF parts[1] = <<"autocomplete">> /\ Len(parts) = 2
      THEN IF IsValidEntity(parts[2])
           THEN Some(RouteMatch(parts[2][1], Some("autocomplete"), None))
           ELSE None
      ELSE IF ~IsValidEntity(parts[1]) THEN None
      ELSE IF Len(parts) = 1 THEN Some(RouteMatch(parts[1][1], None, None))
      ELSE IF Len(parts) = 2
      THEN Some(RouteMatch(parts[1][1], None, Some(parts[2])))
      ELSE None

\* parseRoute: Some(route) or None for null
parseRoute(pathname) ==
  LET cleanPath == StripSlashes(pathname)
      parts     == SplitOn(cleanPath, "/")
  IN  IF ~StrTruthy(parts[1]) THEN None
      ELSE IF parts[1] = <<"autocomplete">> /\ Len(parts) = 2
      THEN IF IsValidEntity(parts[2])
           THEN Some(RouteMatch(parts[2][1], Some("autocomplete"), None))
           ELSE None
      ELSE IF ~IsValidEntity(parts[1]) THEN None
      ELSE IF Len(parts) = 1 THEN Some(RouteMatch(parts[1][1], None, None))
      ELSE IF Len(parts) = 2 /\ parts[2] = <<"random">>
      THEN Some(RouteMatch(parts[1][1], Some("random"), None))
      ELSE IF Len(parts) = 2
      THEN Some(RouteMatch(parts[1][1], None, Some(parts[2])))
      ELSE None

\* jsonResponse(data, status = 200)
jsonResponse(data, status) == [kind |-> "response", status |-> status, body |-> data]

\* a router that matches the route before it looks at the method
routerRouteFirst(request) ==
  LET route == parseRoute(request.pathname)
      Returns(response) ==
        [handler |-> "none", route |-> None, response |-> Some(response)]
  IN  IF request.pathname # <<"/">> /\ route = None
      THEN Returns(jsonResponse(<<"Not found">>, 404))
      ELSE IF request.method = "OPTIONS"
      THEN Returns([kind |-> "response", status |-> 200, body |-> None])
      ELSE IF request.method # "GET"
      THEN Returns(jsonResponse(<<"Method not allowed">>, 405))
      ELSE IF request.pathname = <<"/">>
      THEN Returns(jsonResponse(<<"OpenAlex Worker API">>, 200))
      ELSE [handler |->
              IF route[1].action = Some("autocomplete")
              THEN "handleAutocomplete"
              ELSE IF route[1].action = Some("random")
              THEN "handleRandomEntity"
              ELSE IF OptStrTruthy(route[1].entityId)
              THEN "handleSingleEntity"
              ELSE "handleEntityList",
            route |-> route, response |-> None]

\* what router() does with a request before any handler runs: the Response it
\* returns itself, or the handler it calls with the parsed route
router(request) ==
  IF request.method = "OPTIONS"
  THEN [handler |-> "none", route |-> None,
        response |-> Some([kind |-> "response", status |-> 200, body |-> None])]
  ELSE IF request.method # "GET"
  THEN [handler |-> "none", route |-> None,
        response |-> Some(jsonResponse(<<"Method not allowed">>, 405))]
  ELSE IF request.pathname = <<"/">> \/ request.pathname = <<>>
  THEN [handler |-> "none", route |-> None,
        response |-> Some(jsonResponse(<<"OpenAlex Worker API">>, 200))]
  ELSE LET route == parseRoute(request.pathname)
       IN  IF route = None
           THEN [handler |-> "none", route |-> None,
                 response |-> Some(jsonResponse(<<"Not found">>, 404))]
           ELSE [handler |->
                   IF route[1].action = Some("autocomplete")
                   THEN "handleAutocomplete"
                   ELSE IF route[1].action = Some("random")
                   THEN "handleRandomEntity"
                   ELSE IF OptStrTruthy(route[1].entityId)
                   THEN "handleSingleEntity"
                   ELSE "handleEntityList",
                 route |-> route, response |-> None]

\* ----------------------------------------------------------- entity handlers
\* a handler runs up to its await of the fetcher: it either asks for one URL
\* (fetch) or returns a Response of its own (response)

\* env.OPENALEX_EMAIL: unset, or a contact address
Email == <<"dev", "@", "example.org">>
Envs == {[OPENALEX_EMAIL |-> None], [OPENALEX_EMAIL |-> Some(Email)]}

\* URLSearchParams.get: the first value of that name, or None for null
get(searchParams, name) ==
  IF HasName(searchParams, name)
  THEN Some(searchParams[FirstIndex(searchParams, name)][2])
  ELSE None

\* a || b on optional strings
OrElse(a, b) == IF OptStrTruthy(a) THEN a ELSE b

\* decimal text to number; None when the parameter is absent
ParseNumber(textOpt) ==
  IF textOpt # None /\ \E n \in Nums : NumToString(n) = textOpt[1]
  THEN Some(CHOOSE n \in Nums : NumToString(n) = textOpt[1])
  ELSE None

\* parseQueryParams: the QueryParams named by the inbound query string
parseQueryParams(searchParams) ==
  [filter   |-> get(searchParams, "filter"),
   search   |-> get(searchParams, "search"),
   sort     |-> get(searchParams, "sort"),
   page     |-> ParseNumber(get(searchParams, "page")),
   per_page |-> ParseNumber(get(searchParams, "per_page")),
   cursor   |-> get(searchParams, "cursor"),
   select   |-> get(searchParams, "select"),
   sample   |-> ParseNumber(get(searchParams, "sample")),
   seed     |-> ParseNumber(get(searchParams, "seed")),
   group_by |-> get(searchParams, "group_by"),
   mailto   |-> get(searchParams, "mailto")]

\* if (!queryParams.mailto && env.OPENALEX_EMAIL) queryParams.mailto = ...
WithPoliteEmail(queryParams, env) ==
  IF ~OptStrTruthy(queryParams.mailto) /\ OptStrTruthy(env.OPENALEX_EMAIL)
  THEN [queryParams EXCEPT !.mailto = env.OPENALEX_EMAIL]
  ELSE queryParams

\* QueryBuilder.buildRandomUrl
buildRandomUrl(entityType, mailtoOpt) ==
  LET url == <<OPENALEX_BASE_URL, "/", entityType, "/", "random">>
  IN  IF OptStrTruthy(mailtoOpt)
      THEN url \o <<"?">> \o ParamsToString(ParamsSet(<<>>, "mailto", mailtoOpt[1]))
      ELSE url

\* QueryBuilder.buildAutocompleteUrl
buildAutocompleteUrl(entityType, query, mailtoOpt) ==
  LET url == <<OPENALEX_BASE_URL, "/", "autocomplete", "/", entityType>>
      q   == ParamsSet(<<>>, "q", query)
  IN  url \o <<"?">> \o
        ParamsToString(IF OptStrTruthy(mailtoOpt)
                       THEN ParamsSet(q, "mailto", mailtoOpt[1]) ELSE q)

Asks(url) == [fetch |-> Some(url), response |-> None]
Answers(response) == [fetch |-> None, response |-> Some(response)]

handleEntityList(entityType, request, env) ==
  LET queryParams == WithPoliteEmail(parseQueryParams(request.searchParams), env)
  IN  Asks(buildFromParams(entityType, queryParams, None))

handleSingleEntity(entityType, entityId, request, env) ==
  LET queryParams == WithPoliteEmail(parseQueryParams(request.searchParams), env)
  IN  Asks(buildFromParams(entityType, queryParams, Some(entityId)))

\* a handleRandomEntity that builds from the request's options, as the
\* single-entity handler does
handleRandomEntityWithParams(entityType, request, env) ==
  LET queryParams == WithPoliteEmail(parseQueryParams(request.searchParams), env)
  IN  Asks(buildFromParams(entityType, queryParams, Some(<<"random">>)))

handleRandomEntity(entityType, request, env) ==
  LET email == OrElse(get(request.searchParams, "mailto"), env.OPENALEX_EMAIL)
  IN  Asks(buildRandomUrl(entityType, email))

\* a handleAutocomplete that passes an empty query text on
handleAutocompleteNoCheck(entityType, request, env) ==
  LET query == OrElse(get(request.searchParams, "q"), Some(<<>>))[1]
      email == OrElse(get(request.searchParams, "mailto"), env.OPENALEX_EMAIL)
  IN  Asks(buildAutocompleteUrl(entityType, query, email))

\* a handleAutocomplete that reads the parameter 'query'
handleAutocompleteQuery(entityType, request, env) ==
  LET query == OrElse(get(request.searchParams, "query"), Some(<<>>))[1]
      email == OrElse(get(request.searchParams, "mailto"), env.OPENALEX_EMAIL)
  IN  IF ~StrTruthy(query)
      THEN Answers(jsonResponse(<<"Missing required parameter: q">>, 400))
      ELSE Asks(buildAutocompleteUrl(entityType, query, email))

handleAutocomplete(entityType, request, env) ==
  LET query == OrElse(get(request.searchParams, "q"), Some(<<>>))[1]
      email == OrElse(get(request.searchParams, "mailto"), env.OPENALEX_EMAIL)
  IN  IF ~StrTruthy(query)
      THEN Answers(jsonResponse(<<"Missing required parameter: q">>, 400))
      ELSE Asks(buildAutocompleteUrl(entityType, query, email))

\* the handler router() calls for a matched route
CallHandler(handler, route, request, env) ==
  CASE handler = "handleAutocomplete" ->
         handleAutocomplete(route.entityType, request, env)
    [] handler = "handleRandomEntity" ->
         handleRandomEntity(route.entityType, request, env)
    [] handler = "handleSingleEntity" ->
         handleSingleEntity(route.entityType, route.entityId[1], request, env)
    [] handler = "handleEntityList" ->
         handleEntityList(route.entityType, request, env)

\* a handleError that answers every failure with 500
handleErrorAlways500(error) ==
  jsonResponse([error |-> error.message, statusCode |-> error.statusCode], 500)

\* handleError: the Response for a caught value
handleError(error) ==
  IF error.class = "OpenAlexError"
  THEN jsonResponse([error |-> error.message, statusCode |-> error.statusCode],
                    IF OptNumTruthy(error.statusCode)
                    THEN error.statusCode[1] ELSE 500)
  ELSE IF error.class = "Error"
  THEN jsonResponse([error |-> error.message], 500)
  ELSE jsonResponse([error |-> <<"Unknown error occurred">>], 500)

\* ---------------------------------------------------------------- MCP tools
SearchTools ==
  {"search_works", "search_authors", "search_institutions", "search_sources"}
GetByIdTools == {"get_work_by_id", "get_author_by_id", "get_source_by_id"}

\* the entity a tool passes to buildFromParams
ToolEntity(tool) ==
  CASE tool \in {"search_works", "get_work_by_id"} -> "works"
    [] tool \in {"search_authors", "get_author_by_id"} -> "authors"
    [] tool = "search_institutions" -> "institutions"
    [] tool \in {"search_sources", "get_source_by_id"} -> "sources"

RECURSIVE FieldList(_)
FieldList(fields) ==
  IF Len(fields) = 1 THEN <<Head(fields)>>
  ELSE <<Head(fields), ",">> \o FieldList(Tail(fields))

\* the select list of a search tool's concise mode
ConciseSelect(tool) ==
  CASE tool = "search_works" ->
         FieldList(<<"id", "doi", "display_name", "publication_year",
                     "publication_date", "authorships", "open_access",
                     "cited_by_count", "primary_topic", "biblio">>)
    [] tool = "search_authors" ->
         FieldList(<<"id", "display_name", "orcid", "works_count",
                     "cited_by_count", "last_known_institutions">>)
    [] tool = "search_institutions" ->
         FieldList(<<"id", "display_name", "country_code", "works_count",
                     "cited_by_count", "type">>)
    [] tool = "search_sources" ->
         FieldList(<<"id", "display_name", "type", "host_organization_name",
                     "works_count", "cited_by_count", "is_oa", "country_code">>)

\* the default of the per_page argument
DEFAULT_PER_PAGE == 10

\* arguments of a tool call, after the schema's defaults
ToolCalls ==
  [tool : SearchTools, query : {<<"darwin">>}, filter : {None, Some(<<"&">>)},
   sort : {None}, per_page : {DEFAULT_PER_PAGE, MaxNum}, verbose : BOOLEAN]
    \cup [tool : GetByIdTools, id : {<<"W", "1">>, DoiUrl}]

NoQueryParams == MkQueryParams({}, <<>>, {}, <<>>)

\* tool handlers of which only the search tools pass the contact email
ToolUrlSearchMailtoOnly(call, env) ==
  IF call.tool \in SearchTools
  THEN buildFromParams(ToolEntity(call.tool),
         [NoQueryParams EXCEPT
            !.search = Some(call.query), !.filter = call.filter,
            !.sort = call.sort, !.per_page = Some(call.per_page),
            !.select = IF call.verbose THEN None
                       ELSE Some(ConciseSelect(call.tool)),
            !.mailto = env.OPENALEX_EMAIL],
         None)
  ELSE buildFromParams(ToolEntity(call.tool), NoQueryParams, Some(call.id))

\* the URL a tool handler builds before it awaits the fetcher
ToolUrl(call, env) ==
  IF call.tool \in SearchTools
  THEN buildFromParams(ToolEntity(call.tool),
         [NoQueryParams EXCEPT
            !.search = Some(call.query), !.filter = call.filter,
            !.sort = call.sort, !.per_page = Some(call.per_page),
            !.select = IF call.verbose THEN None
                       ELSE Some(ConciseSelect(call.tool)),
            !.mailto = env.OPENALEX_EMAIL],
         None)
  ELSE buildFromParams(ToolEntity(call.tool),
         [NoQueryParams EXCEPT !.mailto = env.OPENALEX_EMAIL], Some(call.id))

\* JSON.stringify(data, null, 2): the text of the decoded data, re-indented
JsonStringify(data) == <<"indent2">> \o data.json

\* String(error) of a thrown value that is not an OpenAlexError
StringOf(error) ==
  IF error.class = "Error" THEN <<error.name, ": ">> \o error.message
  ELSE <<"[object Object]">>

ToolResult(text) ==
  [kind |-> "result", content |-> <<[type |-> "text", text |-> text]>>]

\* a tool handler whose catch block rethrows
ToolCatchRethrow(error) == [kind |-> "rejected", error |-> error]

\* the catch block of a tool handler: the result it returns
ToolCatch(error) ==
  ToolResult(IF error.class = "OpenAlexError"
             THEN <<"OpenAlex API Error: ">> \o error.message
             ELSE <<"Error: ">> \o StringOf(error))

\* ------------------------------------------------------------- the boundary
\* one inbound HTTP request or tool call, served with the singleton fetcher

RequestEmail == <<"me", "@", "example.org">>

\* text of the q parameter
QueryTexts == Strings \cup {<<"darwin">>}

\* decoded query strings of inbound requests
InboundQueries ==
  {<<>>}
    \cup {<< <<"q", t>> >> : t \in QueryTexts}
    \cup {<< <<"q", <<"darwin">> >>, <<"mailto", RequestEmail>> >>,
          << <<"mailto", RequestEmail>> >>,
          << <<"mailto", <<>> >>, <<"filter", <<"&">> >> >>,
          << <<"filter", <<"&">> >>, <<"page", <<"1">> >>,
             <<"q", <<"darwin">> >> >>,
          << <<"group_by", <<"type">> >>, <<"cursor", <<"*">> >> >>}

\* the fetcher call a boundary job uses
JobCall == 1

\* fetch(url) up to the await of the network call
StartFetch(call, url) ==
  [call EXCEPT !.pc = "awaitFetch", !.url = Some(url), !.timer = "pending",
               !.requests = Append(@, url)]

\* what one pass through router() and the handler it calls comes to, up to
\* the first await: the handlers invoked, and the fetch asked for or the
\* Response returned
Outcome(handlers, h) ==
  [handlers |-> handlers, fetch |-> h.fetch, response |-> h.response]

Dispatch(request, env) ==
  LET r == router(request)
  IN  IF r.handler = "none"
      THEN [handlers |-> <<>>, fetch |-> None, response |-> r.response]
      ELSE Outcome(<<r.handler>>,
                   CallHandler(r.handler, r.route[1], request, env))

\* the state after that pass: the fetch is issued, or the reply is there
Serve(job, d) ==
  /\ inbound' = Some(job)
  /\ IF d.fetch # None
     THEN /\ calls' = [calls EXCEPT ![JobCall] = StartFetch(@, d.fetch[1])]
          /\ dispatch' = [pc |-> "awaiting", handlers |-> d.handlers]
          /\ reply' = None
     ELSE /\ calls' = calls
          /\ dispatch' = [pc |-> "done", handlers |-> d.handlers]
          /\ reply' = d.response

\* request.method, new URL(request.url).pathname and .searchParams
Request(method, pathname, searchParams) ==
  [method |-> method, pathname |-> pathname, searchParams |-> searchParams]

\* router(request, env) up to the first await: it answers by itself, or the
\* handler it calls answers by itself, or that handler issues its fetch
ReceiveRequest ==
  /\ dispatch.pc = "none"
  /\ \E method \in Methods, pathname \in Pathnames,
        searchParams \in InboundQueries, env \in Envs :
       Serve([kind |-> "http",
              request |-> Request(method, pathname, searchParams), env |-> env],
             Dispatch(Request(method, pathname, searchParams), env))
  /\ UNCHANGED <<options, timeout, builderVars, made>>

\* the handler's await returns the data: jsonResponse(data)
HandlerReturns ==
  /\ dispatch.pc = "awaiting"
  /\ inbound[1].kind = "http"
  /\ calls[JobCall].pc = "returned"
  /\ reply' = Some(jsonResponse(calls[JobCall].result[1], 200))
  /\ dispatch' = [dispatch EXCEPT !.pc = "done"]
  /\ UNCHANGED <<inbound, fetcherVars, builderVars, made>>

\* the handler's await throws: handleError(error)
HandlerCatches ==
  /\ dispatch.pc = "awaiting"
  /\ inbound[1].kind = "http"
  /\ calls[JobCall].pc = "thrown"
  /\ reply' = Some(handleError(calls[JobCall].error[1]))
  /\ dispatch' = [dispatch EXCEPT !.pc = "done"]
  /\ UNCHANGED <<inbound, fetcherVars, builderVars, made>>

\* a tool handler up to its await: the URL is built and the fetch issued
ReceiveToolCall ==
  /\ dispatch.pc = "none"
  /\ \E call \in ToolCalls, env \in Envs :
       /\ inbound' = Some([kind |-> "tool", call |-> call, env |-> env])
       /\ calls' = [calls EXCEPT ![JobCall] = StartFetch(@, ToolUrl(call, env))]
       /\ dispatch' = [pc |-> "awaiting", handlers |-> <<call.tool>>]
       /\ reply' = None
  /\ UNCHANGED <<options, timeout, builderVars, made>>

\* the tool handler's await returns the data
ToolReturns ==
  /\ dispatch.pc = "awaiting"
  /\ inbound[1].kind = "tool"
  /\ calls[JobCall].pc = "returned"
  /\ reply' = Some(ToolResult(JsonStringify(calls[JobCall].result[1])))
  /\ dispatch' = [dispatch EXCEPT !.pc = "done"]
  /\ UNCHANGED <<inbound, fetcherVars, builderVars, made>>

\* the tool handler's await throws
ToolCatches ==
  /\ dispatch.pc = "awaiting"
  /\ inbound[1].kind = "tool"
  /\ calls[JobCall].pc = "thrown"
  /\ reply' = Some(ToolCatch(calls[JobCall].error[1]))
  /\ dispatch' = [dispatch EXCEPT !.pc = "done"]
  /\ UNCHANGED <<inbound, fetcherVars, builderVars, made>>

NextWorker ==
  \/ ReceiveRequest
  \/ HandlerReturns
  \/ HandlerCatches
  \/ ReceiveToolCall
  \/ ToolReturns
  \/ ToolCatches
  \/ FetchResolves(JobCall)
  \/ FetchRejects(JobCall)
  \/ TimerFires(JobCall)
  \/ AbortRejects(JobCall)
  \/ TextResolves(JobCall)
  \/ TextRejects(JobCall)
  \/ JsonResolves(JobCall)
  \/ JsonRejects(JobCall)

SpecWorker == InitBuilder /\ [][NextWorker]_vars

\* -------------------------------------------------------------------- claims

\* C1: no fetch() call completes (returns or throws) while its timeout timer
\* is still pending: on every exit path the timer was cleared or has fired.
C1_TimerSettledOnExit ==
  \A c \in CallIds : Terminal(c) => calls[c].timer \in {"cleared", "fired"}

\* C2: whenever a seed is supplied to buildFromParams, with or without a
\* sample size, the built URL has one seed parameter with that value.
C2_SeedAlwaysPassed ==
  LET P == ParseQuery(U) IN
    IsBuildFromParams /\ Q.seed # None
      => ValuesOf(P, "seed") = <<NumToString(Q.seed[1])>>

C4_SampleIffPositive ==
  LET P == ParseQuery(U) IN
    /\ IsBuildFromParams =>
         (CountOf(P, "sample") = 1 <=> (Q.sample # None /\ Q.sample[1] > 0))
    /\ lastCall.op = "sample" /\ nSet = 1 =>
         (HasName(builder[1].params, "sample") <=> lastCall.size > 0)

\* C5: a positive sample size with seed 0 gives both a sample parameter and
\* a seed parameter of value 0.
C5_ZeroSeedIsPresent ==
  LET P == ParseQuery(U) IN
    (/\ IsBuildFromParams
     /\ Q.sample # None
     /\ Q.sample[1] > 0
     /\ Q.seed = Some(0))
      => /\ ValuesOf(P, "sample") = <<NumToString(Q.sample[1])>>
         /\ ValuesOf(P, "seed") = <<<<"0">>>>

\* C5 witness: sample 1 with seed 0 was built
C5_Witness ==
  LET P == ParseQuery(U) IN
    /\ IsBuildFromParams
    /\ Q.sample = Some(1) /\ Q.seed = Some(0)
    /\ CountOf(P, "seed") = 1

\* C6: every field that is present and non-empty (a non-empty string, a
\* non-zero page, page size or sample size, any seed) appears as exactly one
\* parameter whose decoded value is the given value.
C6_ExactlyOneParameterPerField ==
  LET P == ParseQuery(U) IN
    IsBuildFromParams =>
      \A f \in StrFields \cup NumFields :
        (Supplied(f) \/ (f = "seed" /\ Q.seed # None))
          => ValuesOf(P, KeyOf(f)) = <<Given(f)>>

\* C7: with every option absent the URL is exactly the base endpoint, '/',
\* the entity, and '/' plus the identifier when one is given: no '?' and no
\* query string follow.
C7_NoOptionsNoQueryString ==
  LET P == ParseQuery(U) IN
    IsBuildFromParams /\ (\A f \in StrFields \cup NumFields : Q[f] = None)
      => /\ U = IF OptStrTruthy(lastCall.entityId)
                THEN <<OPENALEX_BASE_URL, "/", lastCall.entityType, "/">>
                       \o lastCall.entityId[1]
                ELSE <<OPENALEX_BASE_URL, "/", lastCall.entityType>>
         /\ IndexOf(P, "?") = 0
         /\ P = <<>>

\* C7 witness: works / W1 built with no options
C7_Witness ==
  /\ IsBuildFromParams
  /\ \A f \in StrFields \cup NumFields : Q[f] = None
  /\ lastCall.entityId = Some(<<"W", "1">>)
  /\ U = <<OPENALEX_BASE_URL, "/", "works", "/", "W", "1">>

\* C8: with a page number and a page size both supplied the URL has a page
\* parameter and one per-page parameter; with a page size and no page number
\* it has the per-page parameter and no page parameter; per-page never
\* appears twice.
C8_PaginationTieBreak ==
  LET P == ParseQuery(U) IN
    IsBuildFromParams =>
      /\ Supplied("page") /\ Supplied("per_page")
           => /\ ValuesOf(P, "page") = <<Given("page")>>
              /\ ValuesOf(P, "per-page") = <<Given("per_page")>>
      /\ Supplied("per_page") /\ ~Supplied("page")
           => /\ ValuesOf(P, "per-page") = <<Given("per_page")>>
              /\ CountOf(P, "page") = 0
      /\ CountOf(P, "per-page") <= 1

\* C8 witness: both cases were built
C8_WitnessBoth ==
  LET P == ParseQuery(U) IN
    /\ IsBuildFromParams
    /\ Supplied("page") /\ Supplied("per_page")
    /\ CountOf(P, "page") = 1 /\ CountOf(P, "per-page") = 1

\* C9: a non-empty cursor always appears as the cursor parameter with its
\* value, and when a page number is supplied too the page parameter appears
\* next to it.
C9_CursorWithPage ==
  LET P == ParseQuery(U) IN
    IsBuildFromParams /\ Supplied("cursor")
      => /\ ValuesOf(P, "cursor") = <<Q.cursor[1]>>
         /\ Supplied("page") => ValuesOf(P, "page") = <<Given("page")>>

\* C9 witness: a cursor and a page number were supplied together
C9_Witness ==
  LET P == ParseQuery(U) IN
    /\ IsBuildFromParams
    /\ Supplied("cursor") /\ Supplied("page")
    /\ CountOf(P, "cursor") = 1 /\ CountOf(P, "page") = 1

\* C10 (as stated): a call that received a non-2xx response fails with an
\* OpenAlexError whose status code is the response's, whose message is the
\* status text and whose body is the response body text.
C10_HttpErrorIsStatusText ==
  \A c \in CallIds :
    Terminal(c) /\ calls[c].response # None
      => LET r == calls[c].response[1] IN
         ~ResponseOk(r)
           => /\ calls[c].pc = "thrown"
              /\ calls[c].error[1].class = "OpenAlexError"
              /\ calls[c].error[1].statusCode = Some(r.status)
              /\ calls[c].error[1].message = r.statusText
              /\ calls[c].error[1].responseBody = Some(r.body)

\* C10 (amended): a call that received a non-2xx response and read its body
\* fails with an OpenAlexError whose status code is the response's, whose
\* message is "OpenAlex API error: " followed by the status text, and whose
\* body is the response body text.
C10_HttpErrorCarriesResponse ==
  \A c \in CallIds :
    Terminal(c) /\ calls[c].response # None /\ calls[c].body # None
      => LET r == calls[c].response[1] IN
         ~ResponseOk(r)
           => /\ calls[c].pc = "thrown"
              /\ calls[c].error[1].class = "OpenAlexError"
              /\ calls[c].error[1].statusCode = Some(r.status)
              /\ calls[c].error[1].message
                   = <<"OpenAlex API error: ">> \o r.statusText
              /\ calls[c].error[1].responseBody = Some(r.body)

\* C10 witness: a 404 with body {"error":"not found"} failed the call
C10_Witness ==
  \E c \in CallIds :
    /\ calls[c].pc = "thrown"
    /\ calls[c].error[1].statusCode = Some(404)
    /\ calls[c].error[1].responseBody = Some(<<"{\"error\":\"not found\"}">>)

\* C11: when the timer of a call fires while the network call is pending,
\* the request is aborted, and an aborted pending call can only go on to
\* fail with an OpenAlexError whose message is the timeout message and which
\* has no status code and no body.
C11_TimeoutAbortsAndFails ==
  [][\A c \in CallIds :
       /\ (/\ calls[c].pc = "awaitFetch"
           /\ calls[c].timer = "pending"
           /\ calls'[c].timer = "fired") => calls'[c].aborted
       /\ (/\ calls[c].pc = "awaitFetch"
           /\ calls[c].aborted
           /\ calls'[c] # calls[c])
            => /\ calls'[c].pc = "thrown"
               /\ calls'[c].error =
                    Some(OpenAlexError(<<"Request timeout after ">>
                                         \o NumToString(timeout) \o <<"ms">>,
                                       None, None))]_vars

\* C11 witness: a call timed out before any response arrived
C11_Witness ==
  \E c \in CallIds :
    /\ calls[c].pc = "thrown"
    /\ calls[c].timer = "fired"
    /\ calls[c].response = None
    /\ calls[c].error[1].message[1] = "Request timeout after "

\* C12: every failed call fails with an OpenAlexError, and a failure that is
\* neither a non-2xx response nor a timeout (the network call rejected, or
\* the body of a 2xx response could not be decoded) carries a message only:
\* no status code and no body.
C12_OtherFailuresAreGeneric ==
  \A c \in CallIds :
    calls[c].pc = "thrown"
      => /\ calls[c].error # None
         /\ calls[c].error[1].class = "OpenAlexError"
         /\ (calls[c].response = None \/ ResponseOk(calls[c].response[1]))
              => /\ calls[c].error[1].statusCode = None
                 /\ calls[c].error[1].responseBody = None
                 /\ calls[c].error[1].message # <<>>

\* C12 witness: a 2xx response whose body is not JSON failed the call
C12_Witness ==
  \E c \in CallIds :
    /\ calls[c].pc = "thrown"
    /\ calls[c].response # None
    /\ calls[c].response[1].status = 200
    /\ calls[c].error[1].message = <<"Request failed: ", "Unexpected token">>

\* C16: every step changes the record of one call only, and a call becomes
\* aborted only in a step in which its own pending timer fires; a call that
\* returns, returns the decoded body of its own response.
C16_CallsAreIndependent ==
  [][\A c \in CallIds :
       /\ calls'[c] # calls[c]
            => \A d \in CallIds \ {c} : calls'[d] = calls[d]
       /\ (calls'[c].aborted /\ ~calls[c].aborted)
            => calls[c].timer = "pending" /\ calls'[c].timer = "fired"
       /\ (calls'[c].pc = "returned" /\ calls[c].pc # "returned")
            => calls'[c].result = Some(JsonParse(calls[c].response[1].body))]_vars

\* C16 witness: one call timed out while another returned its data
C16_Witness ==
  \E c, d \in CallIds :
    /\ c # d
    /\ calls[c].pc = "thrown" /\ calls[c].aborted /\ calls[c].response = None
    /\ calls[d].pc = "returned" /\ ~calls[d].aborted

\* the boundary job: whether it is an HTTP request or a tool call, whether it
\* has been answered, and whether its fetcher call failed
IsHttp == inbound # None /\ inbound[1].kind = "http"
IsTool == inbound # None /\ inbound[1].kind = "tool"
Answered == dispatch.pc = "done" /\ reply # None
JobFailed == calls[JobCall].pc = "thrown"
JobError == calls[JobCall].error[1]

\* C13: a call that was made has issued exactly one upstream request, whatever
\* its outcome, and a call that was not made has issued none; a request or
\* tool call whose handler uses the fetcher makes one call, so that one
\* upstream request in all is issued for it, for the URL its handler built.
C13_ExactlyOneRequest ==
  /\ \A c \in CallIds :
       Len(calls[c].requests) = IF calls[c].pc = "idle" THEN 0 ELSE 1
  /\ \A c \in CallIds \ {JobCall} : calls[c].pc = "idle"
  /\ dispatch.pc = "awaiting"
       => calls[JobCall].requests = <<calls[JobCall].url[1]>>
  /\ (Answered /\ dispatch.handlers = <<>>) => calls[JobCall].pc = "idle"

\* C13 witness: a request was answered after its call failed on a timeout
C13_Witness ==
  /\ Answered
  /\ JobFailed
  /\ JobError.message[1] = "Request timeout after "
  /\ Len(calls[JobCall].requests) = 1

\* what a thrown value is answered with at the HTTP boundary
HttpStatusFor(v) ==
  IF v.statusCode # None THEN v.statusCode[1] ELSE 500

C15_ToolFailureIsTextResult ==
  /\ (IsTool /\ dispatch.pc = "done")
       => /\ reply # None
          /\ reply[1].kind = "result"
          /\ Len(reply[1].content) = 1
          /\ reply[1].content[1].type = "text"
          /\ JobFailed => reply[1].content[1].text =
                            <<"OpenAlex API Error: ">> \o JobError.message
  /\ \A v \in {AbortError, NetworkError, BodyStreamError, JsonSyntaxError,
               NonErrorValue} :
       /\ ToolCatch(v).kind = "result"
       /\ Len(ToolCatch(v).content) = 1
       /\ ToolCatch(v).content[1].type = "text"
       /\ ToolCatch(v).content[1].text[1] = "Error: "

\* C15 witness: a by-id tool call answered after an upstream 404
C15_Witness ==
  /\ IsTool /\ dispatch.pc = "done" /\ JobFailed
  /\ inbound[1].call.tool \in GetByIdTools
  /\ JobError.statusCode = Some(404)
  /\ reply[1].content[1].text = <<"OpenAlex API Error: ", "OpenAlex API error: ", "Not Found">>

\* the HTTP request being served, and the URL its handler asked for
Req == inbound[1].request
JobUrl == calls[JobCall].url[1]

\* the part of a URL before its query string
PathOf(url) ==
  LET i == IndexOf(url, "?")
  IN  IF i = 0 THEN url ELSE SubSeq(url, 1, i - 1)

\* the first value of a parameter of the inbound request, when not empty
RequestParam(name) ==
  LET Named(p) == p[1] = name
      ps == SelectSeq(Req.searchParams, Named)
  IN  IF ps # <<>> /\ ps[1][2] # <<>> THEN Some(ps[1][2]) ELSE None

\* the contact email available to the request: its own, else the worker's
AvailableEmail ==
  IF RequestParam("mailto") # None THEN RequestParam("mailto")
  ELSE IF inbound[1].env.OPENALEX_EMAIL \notin {None, Some(<<>>)}
  THEN inbound[1].env.OPENALEX_EMAIL
  ELSE None

\* C17: the URL of a random-entity request is the base endpoint plus
\* /{entity}/random, followed by the one parameter mailto when a non-empty
\* contact email is available and by no query string otherwise; no option of
\* the inbound request appears in it.
C17_RandomUrlHasOnlyMailto ==
  (IsHttp /\ dispatch.handlers = <<"handleRandomEntity">>)
    => LET P == ParseQuery(JobUrl)
       IN  /\ \E e \in VALID_ENTITIES :
                /\ SubSeq(Req.pathname, 1, 4) = <<"/", e, "/", "random">>
                /\ PathOf(JobUrl) = <<OPENALEX_BASE_URL, "/", e, "/", "random">>
           /\ IF AvailableEmail # None
              THEN P = << <<<<"mailto">>, AvailableEmail[1]>> >>
              ELSE JobUrl = PathOf(JobUrl)
           /\ \A f \in (StrFields \cup NumFields) \ {"mailto"} :
                CountOf(P, KeyOf(f)) = 0

\* C17 witness: a random request that carried a filter, served with the
\* worker's email
C17_Witness ==
  /\ IsHttp /\ dispatch.handlers = <<"handleRandomEntity">>
  /\ RequestParam("filter") # None
  /\ JobUrl = <<OPENALEX_BASE_URL, "/", "works", "/", "random", "?", "mailto",
                "=", "dev", "%", "4", "0", "example.org">>

\* C18: an autocomplete request with a non-empty query text asks for the base
\* endpoint plus /autocomplete/{entity} with one q parameter equal to the
\* query text, and a mailto parameter exactly when a contact email is
\* available; authors and "darwin" give .../autocomplete/authors?q=darwin.
C18_AutocompleteUrl ==
  /\ (IsHttp /\ dispatch.handlers = <<"handleAutocomplete">>
        /\ RequestParam("q") # None)
       => /\ calls[JobCall].pc # "idle"
          /\ LET P == ParseQuery(JobUrl)
             IN  /\ \E e \in VALID_ENTITIES :
                      /\ SubSeq(Req.pathname, 1, 4) = <<"/", "autocomplete", "/", e>>
                      /\ PathOf(JobUrl) =
                           <<OPENALEX_BASE_URL, "/", "autocomplete", "/", e>>
                 /\ ValuesOf(P, "q") = <<RequestParam("q")[1]>>
                 /\ ValuesOf(P, "mailto") =
                      IF AvailableEmail # None THEN <<AvailableEmail[1]>> ELSE <<>>
                 /\ Len(P) = 1 + CountOf(P, "mailto")
  /\ buildAutocompleteUrl("authors", <<"darwin">>, None) =
       <<OPENALEX_BASE_URL, "/", "autocomplete", "/", "authors", "?", "q", "=",
         "darwin">>

\* C18 witness: /autocomplete/authors?q=darwin without a contact email
C18_Witness ==
  /\ IsHttp /\ dispatch.handlers = <<"handleAutocomplete">>
  /\ Req.pathname = <<"/", "autocomplete", "/", "authors">>
  /\ calls[JobCall].pc # "idle"
  /\ JobUrl = <<OPENALEX_BASE_URL, "/", "autocomplete", "/", "authors", "?",
                "q", "=", "darwin">>

\* C19: a GET of /works/ followed by a full DOI URL is handled by the
\* single-entity handler with the DOI URL as the identifier, and is not
\* answered 404.
C19_DoiUrlIsRouted ==
  (IsHttp /\ Req.method = "GET" /\ Req.pathname = DoiPathname)
    => /\ dispatch.handlers = <<"handleSingleEntity">>
       /\ PathOf(JobUrl) = <<OPENALEX_BASE_URL, "/", "works", "/">> \o DoiUrl
       /\ reply # None => reply[1].status # 404

\* C20: GET /{entity}/random is handled by the random-entity handler, which
\* asks for /{entity}/random; /autocomplete/{entity} goes to the autocomplete
\* handler, /{entity}/{id} with any other id to the single-entity handler and
\* /{entity} to the list handler; no request has more than one handler.
C20_RandomBeforeId ==
  /\ Len(dispatch.handlers) <= 1
  /\ (IsHttp /\ Req.method = "GET")
       => \A e \in VALID_ENTITIES :
            /\ Req.pathname = <<"/", e, "/", "random">>
                 => /\ dispatch.handlers = <<"handleRandomEntity">>
                    /\ PathOf(JobUrl) =
                         <<OPENALEX_BASE_URL, "/", e, "/", "random">>
            /\ Req.pathname = <<"/", "autocomplete", "/", e>>
                 => dispatch.handlers = <<"handleAutocomplete">>
            /\ Req.pathname = <<"/", e>>
                 => dispatch.handlers = <<"handleEntityList">>
            /\ (/\ Len(Req.pathname) > 3
                /\ SubSeq(Req.pathname, 1, 3) = <<"/", e, "/">>
                /\ \A i \in 4..Len(Req.pathname) : Req.pathname[i] # "/"
                /\ SubSeq(Req.pathname, 4, Len(Req.pathname)) # <<"random">>)
                 => dispatch.handlers = <<"handleSingleEntity">>

\* C20 witness: GET /works/random with options was answered with the data of
\* /works/random
C20_Witness ==
  /\ IsHttp /\ Answered
  /\ Req.method = "GET"
  /\ Req.pathname = <<"/", "works", "/", "random">>
  /\ RequestParam("filter") # None
  /\ dispatch.handlers = <<"handleRandomEntity">>
  /\ reply[1].status = 200

\* C21: the upstream URL of every tool call holds exactly one mailto
\* parameter, equal to OPENALEX_EMAIL, when that is configured and not empty,
\* and no mailto parameter when it is not configured.
C21_ToolUrlCarriesConfiguredEmail ==
  (IsTool /\ calls[JobCall].pc # "idle")
    => LET P     == ParseQuery(JobUrl)
           email == inbound[1].env.OPENALEX_EMAIL
       IN  /\ (email # None /\ email[1] # <<>>)
                => ValuesOf(P, "mailto") = <<email[1]>>
           /\ email = None => CountOf(P, "mailto") = 0

\* C21 witness: a by-id tool call made with the email configured
C21_Witness ==
  /\ IsTool /\ calls[JobCall].pc # "idle"
  /\ inbound[1].call.tool = "get_author_by_id"
  /\ inbound[1].env.OPENALEX_EMAIL = Some(Email)
  /\ JobUrl = <<OPENALEX_BASE_URL, "/", "authors", "/", "W", "1", "?", "mailto",
                "=", "dev", "%", "4", "0", "example.org">>

NoSlash(s) == \A i \in 1..Len(s) : s[i] # "/"

\* a pathname of one of the routes: /{entity}, /{entity}/{id} and
\* /autocomplete/{entity} for a recognized entity, with or without one
\* trailing slash
IsRoutePath(pathname) ==
  \E e \in VALID_ENTITIES :
    \E core \in {pathname} \cup
                {SubSeq(pathname, 1, Len(pathname) - 1) :
                   x \in {y \in {pathname} : y # <<>> /\ y[Len(y)] = "/"}} :
      \/ core = <<"/", e>>
      \/ /\ Len(core) >= 3
         /\ SubSeq(core, 1, 3) = <<"/", e, "/">>
         /\ NoSlash(SubSeq(core, 4, Len(core)))
      \/ core = <<"/", "autocomplete", "/", e>>

\* C23: an upstream request is issued for a GET only on a path of one of the
\* routes of a recognized entity, and then for that entity; every other GET
\* path but the root is answered 404 by the router, with no handler invoked
\* and no upstream request.
C23_OnlyRecognizedEntitiesGoUpstream ==
  (IsHttp /\ Req.method = "GET" /\ Req.pathname # <<"/">>)
    => /\ calls[JobCall].pc # "idle"
            => /\ IsRoutePath(Req.pathname)
               /\ \E e \in VALID_ENTITIES :
                    /\ \E i \in 1..Len(Req.pathname) : Req.pathname[i] = e
                    /\ \/ SubSeq(JobUrl, 1, 3) = <<OPENALEX_BASE_URL, "/", e>>
                       \/ SubSeq(JobUrl, 1, 5) =
                            <<OPENALEX_BASE_URL, "/", "autocomplete", "/", e>>
       /\ ~IsRoutePath(Req.pathname)
            => /\ Answered
               /\ reply[1].status = 404
               /\ dispatch.handlers = <<>>
               /\ calls[JobCall].pc = "idle"

\* C23 witness: GET /autocomplete/bogus was answered 404 without a call
C23_Witness ==
  /\ IsHttp /\ Answered
  /\ Req.method = "GET"
  /\ Req.pathname = <<"/", "autocomplete", "/", "bogus">>
  /\ reply[1].status = 404
  /\ calls[JobCall].pc = "idle"

\* C24: an OPTIONS request is answered with the 200 preflight response and a
\* request of any method other than GET and OPTIONS with 405, on every path;
\* no handler is invoked and no upstream request is made for either.
C24_MethodCheckComesFirst ==
  (IsHttp /\ Req.method # "GET")
    => /\ Answered
       /\ reply[1].status = IF Req.method = "OPTIONS" THEN 200 ELSE 405
       /\ Req.method = "OPTIONS" => reply[1].body = None
       /\ dispatch.handlers = <<>>
       /\ calls[JobCall].pc = "idle"

\* C24 witness: OPTIONS on a path that a GET would find no route for
C24_Witness ==
  /\ IsHttp /\ Answered
  /\ Req.method = "OPTIONS"
  /\ Req.pathname = <<"/", "bogus", "/", "bogus">>
  /\ reply[1].status = 200

\* C25: an autocomplete request whose first q parameter is missing or empty is
\* answered 400 and makes no upstream request; one whose q is not empty makes
\* its upstream request.
C25_AutocompleteNeedsQuery ==
  (IsHttp /\ dispatch.handlers = <<"handleAutocomplete">>)
    => IF RequestParam("q") = None
       THEN /\ Answered
            /\ reply[1].status = 400
            /\ calls[JobCall].pc = "idle"
       ELSE calls[JobCall].pc # "idle"

\* C25 witness: /autocomplete/works?q= was answered 400
C25_Witness ==
  /\ IsHttp /\ Answered
  /\ Req.pathname = <<"/", "autocomplete", "/", "works">>
  /\ Req.searchParams = << <<"q", <<>> >> >>
  /\ reply[1].status = 400
  /\ calls[JobCall].pc = "idle"

\* whether call c has its response and is reading the body
ReadingBody(c) == calls[c].pc \in {"readJson", "readText"}

\* C26: while a call reads the body of its response its timer is cleared and
\* its request is not aborted, so no timer step can happen for it; the call
\* leaves the body read only when the read itself settles, and if it fails
\* then, it fails with an error that is not the timeout error.
C26_TimeoutCoversHeadersOnly ==
  /\ [](\A c \in CallIds :
          ReadingBody(c) => /\ calls[c].timer = "cleared"
                            /\ ~calls[c].aborted
                            /\ ~ENABLED TimerFires(c))
  /\ [][\A c \in CallIds :
          (ReadingBody(c) /\ calls'[c] # calls[c])
            => /\ calls'[c].pc \in {"returned", "thrown"}
               /\ calls'[c].timer = "cleared"
               /\ calls'[c].pc = "thrown"
                    => calls'[c].error[1].message[1] # "Request timeout after "]_vars

\* C26 witness: one call failed while reading a body and another is still
\* reading its body, each with its timer cleared
C26_Witness ==
  \E c, d \in CallIds :
    /\ calls[c].pc = "thrown" /\ calls[c].response # None
    /\ calls[c].timer = "cleared"
    /\ calls[c].error[1].message = <<"Request failed: ", "body stream failed">>
    /\ ReadingBody(d) /\ calls[d].timer = "cleared"

\* C27: the timeout of a fetcher is 30000 when it was constructed with no
\* timeout or with 0 and the given value when that is positive; it never
\* changes afterwards, and every call that times out reports that value.
C27_TimeoutFixedAtConstruction ==
  /\ [](/\ (options = None \/ options[1] = 0) => timeout = 30000
        /\ (options # None /\ options[1] > 0) => timeout = options[1]
        /\ \A c \in CallIds :
             (/\ calls[c].pc = "thrown"
              /\ calls[c].error[1].message[1] = "Request timeout after ")
               => calls[c].error[1].message =
                    <<"Request timeout after ">> \o NumToString(timeout)
                      \o <<"ms">>)
  /\ [][timeout' = timeout /\ options' = options]_vars

\* C27 witness: a fetcher constructed with timeout 0 on which every call
\* timed out after 30000 ms
C27_Witness ==
  /\ options = Some(0)
  /\ timeout = 30000
  /\ \A c \in CallIds :
       /\ calls[c].pc = "thrown" /\ calls[c].timer = "fired"
       /\ calls[c].error[1].message =
            <<"Request timeout after ">> \o NumToString(30000) \o <<"ms">>

\* whether the job's call failed because the body text of its non-2xx
\* response could not be read
ErrorBodyUnread ==
  /\ JobFailed
  /\ calls[JobCall].response # None
  /\ ~ResponseOk(calls[JobCall].response[1])
  /\ calls[JobCall].body = None

\* C29: a call whose non-2xx response could not be read as text fails with an
\* OpenAlexError that has the generic 'Request failed: ' message, no status
\* code and no body, and an HTTP request whose call failed so is answered 500
\* whatever the upstream status was.
C29_UnreadErrorBodyLosesStatus ==
  ErrorBodyUnread
    => /\ JobError.class = "OpenAlexError"
       /\ JobError.message = <<"Request failed: ">> \o BodyStreamError.message
       /\ JobError.statusCode = None
       /\ JobError.responseBody = None
       /\ (IsHttp /\ Answered) => reply[1].status = 500

\* C29 witness: an upstream 404 whose body could not be read was answered 500
C29_Witness ==
  /\ IsHttp /\ Answered
  /\ ErrorBodyUnread
  /\ calls[JobCall].response[1].status = 404
  /\ reply[1].status = 500

\* the parameter keys the setters write
SetterKeys ==
  {"filter", "search", "sort", "page", "per-page", "cursor", "select",
   "sample", "seed", "group_by", "mailto"}

SetterOps ==
  {"filter", "search", "sort", "page", "perPage", "cursor", "select",
   "sample", "groupBy", "mailto"}

StrArg(s) == Some([text |-> s, truthy |-> StrTruthy(s)])
NumArg(n) == Some([text |-> NumToString(n), truthy |-> NumTruthy(n)])

\* the argument a setter call carries for key k: its text and whether it is
\* truthy; None when the call has no argument for k or leaves it out
ArgFor(call, k) ==
  CASE call.op = "filter"  /\ k = "filter"   -> StrArg(call.filterString)
    [] call.op = "search"  /\ k = "search"   -> StrArg(call.searchTerm)
    [] call.op = "sort"    /\ k = "sort"     -> StrArg(call.sortField)
    [] call.op = "cursor"  /\ k = "cursor"   -> StrArg(call.cursorValue)
    [] call.op = "select"  /\ k = "select"   -> StrArg(call.fields)
    [] call.op = "groupBy" /\ k = "group_by" -> StrArg(call.field)
    [] call.op = "mailto"  /\ k = "mailto"   -> StrArg(call.email)
    [] call.op = "page"    /\ k = "page"     -> NumArg(call.pageNumber)
    [] call.op = "page"    /\ k = "per-page" /\ call.perPage # None
                                             -> NumArg(call.perPage[1])
    [] call.op = "perPage" /\ k = "per-page" -> NumArg(call.limit)
    [] call.op = "sample"  /\ k = "sample"   -> NumArg(call.size)
    [] call.op = "sample"  /\ k = "seed" /\ call.seed # None
                                             -> NumArg(call.seed[1])
    [] OTHER -> None

\* how often key k occurs among the builder's parameters
Occurrences(params, k) ==
  Cardinality({i \in 1..Len(params) : params[i][1] = k})

\* every key occurs at most once in the builder and in the URL build
\* returned, where it has the builder's value
KeysAtMostOnce ==
  builder # None
    => /\ \A k \in SetterKeys : Occurrences(builder[1].params, k) <= 1
       /\ lastCall.op = "build"
            => LET P == ParseQuery(U)
               IN  /\ Len(P) = Len(builder[1].params)
                   /\ \A k \in SetterKeys :
                        /\ CountOf(P, k) <= 1
                        /\ ValuesOf(P, k) =
                             IF HasName(builder[1].params, k)
                             THEN <<get(builder[1].params, k)[1]>> ELSE <<>>

\* a setter call sets key k to its argument when the argument counts as
\* supplied, and leaves the key as it was otherwise
SetterStep(IsSupplied(_, _)) ==
  (builder # None /\ lastCall'.op \in SetterOps /\ nSet' = nSet + 1)
    => \A k \in SetterKeys :
         LET a == ArgFor(lastCall', k)
         IN  get(builder'[1].params, k) =
               IF a # None /\ IsSupplied(k, a[1]) THEN Some(a[1].text)
               ELSE get(builder[1].params, k)

TruthySupplied(k, a) == a.truthy
TruthyOrSeedSupplied(k, a) == k = "seed" \/ a.truthy

\* C28 as stated: each key occurs at most once, a setter call with a truthy
\* argument for a key sets the key to it, and a call with a falsy argument
\* leaves every parameter as it was.
C28_LastTruthyValueWins ==
  /\ []KeysAtMostOnce
  /\ [][SetterStep(TruthySupplied)]_vars

\* C28 amended: each key occurs at most once; a setter call sets a key other
\* than seed to its argument when that is truthy and leaves it as it was
\* otherwise; sample sets seed to any seed it is given, zero included, and
\* leaves it as it was when the seed is left out.
C28_LastSuppliedValueWins ==
  /\ []KeysAtMostOnce
  /\ [][SetterStep(TruthyOrSeedSupplied)]_vars

\* C28 witness: after filter('b&') and then filter(''), build returned a URL
\* with the one filter parameter of the first call
C28_Witness ==
  /\ builder # None /\ nSet = 2
  /\ lastCall.op = "build"
  /\ builder[1].params = << <<"filter", <<"b", "&">> >> >>
  /\ ValuesOf(ParseQuery(U), "filter") = << <<"b", "&">> >>

====
